---------------------------- MODULE Spec2Model ----------------------------
(***************************************************************************)
(* Model of the swap engine of uniswap-v3-math:                            *)
(*   src/src/swap.rs      the integer (U256 / I256) swap loop              *)
(*   src/src/f64_swap.rs  the floating-point swap loop and its step math   *)
(*                                                                         *)
(* Numbers.  TLC integers are 32 bits wide, so the fixed-point scale 2^96  *)
(* and the tick ladder 1.0001^tick over [-887272, 887272] are scaled down: *)
(* Q96 is 2^3, the ladder is (9/4)^tick over [MIN_TICK, MAX_TICK], so the  *)
(* square-root price of tick t is Q96 * (3/2)^t.  The shape of every       *)
(* formula is the one of the code.  Values of the f64 variant are exact    *)
(* rationals <<n, d>> (d > 0, lowest terms): the rounding error of IEEE    *)
(* doubles is not modelled.  Values of the integer variant are integers    *)
(* and every division rounds the way the fixed-point library rounds it.    *)
(* Both variants keep their loop state as rationals so that one set of     *)
(* state variables serves both.                                            *)
(***************************************************************************)
EXTENDS Integers, Sequences, FiniteSets, TLC

-----------------------------------------------------------------------------
(* Integer helpers *)

Abs(x) == IF x < 0 THEN -x ELSE x

RECURSIVE GCD(_, _)
GCD(a, b) == IF b = 0 THEN a ELSE GCD(b, a % b)

RECURSIVE Pow(_, _)
Pow(b, e) == IF e = 0 THEN 1 ELSE b * Pow(b, e - 1)

\* floor and ceiling of a / b for a >= 0, b > 0 (full_math mul_div and
\* mul_div_rounding_up once the product a has been formed)
DivDown(a, b) == a \div b
DivUp(a, b) == (a + b - 1) \div b

SetMax(S) == CHOOSE x \in S : \A y \in S : y <= x
SetMin(S) == CHOOSE x \in S : \A y \in S : x <= y

-----------------------------------------------------------------------------
(* Exact rationals: the values of f64 variables *)

Rat(n, d) ==
    LET s == IF d < 0 THEN -1 ELSE 1
        g == GCD(Abs(n), Abs(d))
    IN  <<(s * n) \div g, (s * d) \div g>>

R(n) == <<n, 1>>
RZero == <<0, 1>>

RNeg(x) == <<-x[1], x[2]>>
RAdd(x, y) ==
    LET g == GCD(x[2], y[2])
    IN  Rat(x[1] * (y[2] \div g) + y[1] * (x[2] \div g), (x[2] \div g) * y[2])
RSub(x, y) == RAdd(x, RNeg(y))
RMul(x, y) ==
    LET g1 == GCD(Abs(x[1]), y[2])
        g2 == GCD(Abs(y[1]), x[2])
    IN  IF x[1] = 0 \/ y[1] = 0 THEN RZero
        ELSE <<(x[1] \div g1) * (y[1] \div g2), (x[2] \div g2) * (y[2] \div g1)>>
RInv(x) == IF x[1] < 0 THEN <<-x[2], -x[1]>> ELSE <<x[2], x[1]>>
RDiv(x, y) == RMul(x, RInv(y))

RLt(x, y) == x[1] * y[2] < y[1] * x[2]
RLe(x, y) == x[1] * y[2] <= y[1] * x[2]
RGt(x, y) == RLt(y, x)
RGe(x, y) == RLe(y, x)
RIsInt(x) == x[2] = 1


-----------------------------------------------------------------------------
(* Scaled program constants *)

\* f64_swap.rs Q96 = 2^96, scaled to 2^3
Q96 == 8
\* tick_math::MIN_TICK / MAX_TICK (-887272 / 887272), scaled
MIN_TICK == -3
MAX_TICK == 3
\* the tick ladder sqrt(1.0001)^tick, scaled to (TickNum / TickDen)^tick
TickNum == 3
TickDen == 2
\* swap_math: fee is in parts of FEE_DENOM (1e6, hundredths of a bip), scaled
FEE_DENOM == 4
\* tick_bitmap: ticks of one bitmap word (U256)
WORD_BITS == 256
\* liquidity is a u128; scaled to 4 bits
U128_MAX == 15

-----------------------------------------------------------------------------
(* tick_math *)

\* sqrt(1.0001^tick) * 2^96, rounded down; the caller guarantees the range
SqrtRatio(tick) ==
    IF tick >= 0
    THEN (Q96 * Pow(TickNum, tick)) \div Pow(TickDen, tick)
    ELSE (Q96 * Pow(TickDen, -tick)) \div Pow(TickNum, -tick)

MIN_SQRT_RATIO == SqrtRatio(MIN_TICK)
MAX_SQRT_RATIO == SqrtRatio(MAX_TICK)

\* Err(T) when the tick is outside [MIN_TICK, MAX_TICK]
get_sqrt_ratio_at_tick(tick) ==
    IF tick < MIN_TICK \/ tick > MAX_TICK
    THEN [ok |-> FALSE, err |-> "T", v |-> 0]
    ELSE [ok |-> TRUE, err |-> "", v |-> SqrtRatio(tick)]

\* the greatest tick whose ratio is <= sqrt_price; Err(R) outside
\* [MIN_SQRT_RATIO, MAX_SQRT_RATIO)
get_tick_at_sqrt_ratio(sqrt_price) ==
    IF sqrt_price < MIN_SQRT_RATIO \/ sqrt_price >= MAX_SQRT_RATIO
    THEN [ok |-> FALSE, err |-> "R", v |-> 0]
    ELSE [ok |-> TRUE, err |-> "",
          v |-> SetMax({t \in MIN_TICK..MAX_TICK : SqrtRatio(t) <= sqrt_price})]

\* f64_swap.rs: (1.0001f64.powi(tick_next) * Q192).sqrt(), on the same ladder
f64_sqrt_price_at_tick(tick) == R(SqrtRatio(tick))

-----------------------------------------------------------------------------
(* tick_bitmap: the bitmap is the set of compressed ticks whose bit is set *)

next_initialized_tick_within_one_word(tick_bitmap, tick, tick_spacing, lte) ==
    LET compressed == tick \div tick_spacing   \* rounds toward -infinity
    IN  IF lte
        THEN LET bit_pos == compressed % WORD_BITS
                 masked == {c \in tick_bitmap :
                              /\ c \div WORD_BITS = compressed \div WORD_BITS
                              /\ c % WORD_BITS <= bit_pos}
             IN  IF masked # {}
                 THEN [next |-> SetMax(masked) * tick_spacing, initialized |-> TRUE]
                 ELSE [next |-> (compressed - bit_pos) * tick_spacing,
                       initialized |-> FALSE]
        ELSE LET c1 == compressed + 1
                 bit_pos == c1 % WORD_BITS
                 masked == {c \in tick_bitmap :
                              /\ c \div WORD_BITS = c1 \div WORD_BITS
                              /\ c % WORD_BITS >= bit_pos}
             IN  IF masked # {}
                 THEN [next |-> SetMin(masked) * tick_spacing, initialized |-> TRUE]
                 ELSE [next |-> (c1 + (WORD_BITS - 1 - bit_pos)) * tick_spacing,
                       initialized |-> FALSE]

-----------------------------------------------------------------------------
(* liquidity_math *)

\* x + y on u128 with a signed y; Err(LS) on underflow, Err(LA) on overflow
add_delta(x, y) ==
    IF y < 0
    THEN IF -y > x THEN [ok |-> FALSE, err |-> "LS", v |-> 0]
         ELSE [ok |-> TRUE, err |-> "", v |-> x + y]
    ELSE IF x + y > U128_MAX THEN [ok |-> FALSE, err |-> "LA", v |-> 0]
         ELSE [ok |-> TRUE, err |-> "", v |-> x + y]

-----------------------------------------------------------------------------
(* sqrt_price_math and swap_math of the integer variant (spec sections     *)
(* 4.1, 4.4 and 4.5): every division rounds in the pool's favour           *)

\* liquidity * 2^96 * (upper - lower) / (upper * lower)
int_get_amount0_delta(sqrt_a, sqrt_b, liquidity, round_up) ==
    LET lower == IF sqrt_a > sqrt_b THEN sqrt_b ELSE sqrt_a
        upper == IF sqrt_a > sqrt_b THEN sqrt_a ELSE sqrt_b
        numerator == liquidity * Q96 * (upper - lower)
    IN  IF round_up
        THEN DivUp(DivUp(numerator, upper), lower)
        ELSE DivDown(DivDown(numerator, upper), lower)

\* liquidity * (upper - lower) / 2^96
int_get_amount1_delta(sqrt_a, sqrt_b, liquidity, round_up) ==
    LET lower == IF sqrt_a > sqrt_b THEN sqrt_b ELSE sqrt_a
        upper == IF sqrt_a > sqrt_b THEN sqrt_a ELSE sqrt_b
    IN  IF round_up
        THEN DivUp(liquidity * (upper - lower), Q96)
        ELSE DivDown(liquidity * (upper - lower), Q96)

\* the price after adding (add) or removing an amount of asset 0, rounded up
get_next_sqrt_price_from_amount0_rounding_up(sqrt_price, liquidity, amount, add) ==
    LET numerator1 == liquidity * Q96
    IN  IF amount = 0 THEN [ok |-> TRUE, err |-> "", v |-> sqrt_price]
        ELSE IF add
        THEN [ok |-> TRUE, err |-> "",
              v |-> DivUp(numerator1 * sqrt_price, numerator1 + amount * sqrt_price)]
        ELSE IF numerator1 <= amount * sqrt_price
        THEN [ok |-> FALSE, err |-> "PriceOverflow", v |-> 0]
        ELSE [ok |-> TRUE, err |-> "",
              v |-> DivUp(numerator1 * sqrt_price, numerator1 - amount * sqrt_price)]

\* the price after adding (add) or removing an amount of asset 1, rounded down
get_next_sqrt_price_from_amount1_rounding_down(sqrt_price, liquidity, amount, add) ==
    IF add
    THEN [ok |-> TRUE, err |-> "",
          v |-> sqrt_price + DivDown(amount * Q96, liquidity)]
    ELSE LET quotient == DivUp(amount * Q96, liquidity)
         IN  IF sqrt_price <= quotient
             THEN [ok |-> FALSE, err |-> "PriceUnderflow", v |-> 0]
             ELSE [ok |-> TRUE, err |-> "", v |-> sqrt_price - quotient]

int_get_next_sqrt_price_from_input(sqrt_price, liquidity, amount_in, zero_for_one) ==
    IF sqrt_price = 0 THEN [ok |-> FALSE, err |-> "SqrtPriceIsZero", v |-> 0]
    ELSE IF liquidity = 0 THEN [ok |-> FALSE, err |-> "LiquidityIsZero", v |-> 0]
    ELSE IF zero_for_one
    THEN get_next_sqrt_price_from_amount0_rounding_up(sqrt_price, liquidity, amount_in, TRUE)
    ELSE get_next_sqrt_price_from_amount1_rounding_down(sqrt_price, liquidity, amount_in, TRUE)

int_get_next_sqrt_price_from_output(sqrt_price, liquidity, amount_out, zero_for_one) ==
    IF sqrt_price = 0 THEN [ok |-> FALSE, err |-> "SqrtPriceIsZero", v |-> 0]
    ELSE IF liquidity = 0 THEN [ok |-> FALSE, err |-> "LiquidityIsZero", v |-> 0]
    ELSE IF zero_for_one
    THEN get_next_sqrt_price_from_amount1_rounding_down(sqrt_price, liquidity, amount_out, FALSE)
    ELSE get_next_sqrt_price_from_amount0_rounding_up(sqrt_price, liquidity, amount_out, FALSE)

StepError(e) == [ok |-> FALSE, err |-> e, sqrt_price_next |-> 0,
                 amount_in |-> 0, amount_out |-> 0, fee_amount |-> 0]

\* the amount that moves the price to the target: input (rounded up) in
\* exact-input mode, output (rounded down) in exact-output mode
sms_amount_to_target(sqrt_current, sqrt_target, liquidity, zero_for_one, exact_in) ==
    IF exact_in
    THEN IF zero_for_one
         THEN int_get_amount0_delta(sqrt_target, sqrt_current, liquidity, TRUE)
         ELSE int_get_amount1_delta(sqrt_current, sqrt_target, liquidity, TRUE)
    ELSE IF zero_for_one
         THEN int_get_amount1_delta(sqrt_target, sqrt_current, liquidity, FALSE)
         ELSE int_get_amount0_delta(sqrt_current, sqrt_target, liquidity, FALSE)

\* the price after the step: the target when the amount suffices, else the
\* price the amount reaches
sms_sqrt_price_next(sqrt_current, sqrt_target, liquidity, amount_remaining, less_fee, zero_for_one, exact_in, to_target) ==
    IF exact_in
    THEN IF less_fee >= to_target
         THEN [ok |-> TRUE, err |-> "", v |-> sqrt_target]
         ELSE int_get_next_sqrt_price_from_input(
                  sqrt_current, liquidity, less_fee, zero_for_one)
    ELSE IF -amount_remaining >= to_target
         THEN [ok |-> TRUE, err |-> "", v |-> sqrt_target]
         ELSE int_get_next_sqrt_price_from_output(
                  sqrt_current, liquidity, -amount_remaining, zero_for_one)

\* the cap of the output and the fee, given the amounts of the step
sms_finish(sqrt_target, amount_remaining, fee_pips, exact_in, next, amount_in, amount_out) ==
    [ok |-> TRUE, err |-> "", sqrt_price_next |-> next,
     amount_in |-> amount_in,
     amount_out |-> IF ~exact_in /\ amount_out > -amount_remaining
                    THEN -amount_remaining ELSE amount_out,
     fee_amount |-> IF exact_in /\ next # sqrt_target
                    THEN amount_remaining - amount_in
                    ELSE DivUp(amount_in * fee_pips, FEE_DENOM - fee_pips)]

\* amount_in and amount_out between the current and the next price; the one
\* that gave a reached target is kept as it was computed
sms_amounts(sqrt_current, sqrt_target, liquidity, amount_remaining, fee_pips, zero_for_one, exact_in, to_target, next) ==
    sms_finish(sqrt_target, amount_remaining, fee_pips, exact_in, next,
        IF next = sqrt_target /\ exact_in THEN to_target
        ELSE IF zero_for_one
        THEN int_get_amount0_delta(next, sqrt_current, liquidity, TRUE)
        ELSE int_get_amount1_delta(sqrt_current, next, liquidity, TRUE),
        IF next = sqrt_target /\ ~exact_in THEN to_target
        ELSE IF zero_for_one
        THEN int_get_amount1_delta(next, sqrt_current, liquidity, FALSE)
        ELSE int_get_amount0_delta(sqrt_current, next, liquidity, FALSE))

sms_with_next(sqrt_current, sqrt_target, liquidity, amount_remaining, fee_pips, zero_for_one, exact_in, to_target, next) ==
    IF ~next.ok THEN StepError(next.err)
    ELSE sms_amounts(sqrt_current, sqrt_target, liquidity, amount_remaining, fee_pips,
                     zero_for_one, exact_in, to_target, next.v)

sms_with_target(sqrt_current, sqrt_target, liquidity, amount_remaining, fee_pips, zero_for_one, exact_in, to_target) ==
    sms_with_next(sqrt_current, sqrt_target, liquidity, amount_remaining, fee_pips,
                  zero_for_one, exact_in, to_target,
                  sms_sqrt_price_next(
                      sqrt_current, sqrt_target, liquidity, amount_remaining,
                      DivDown(amount_remaining * (FEE_DENOM - fee_pips), FEE_DENOM),
                      zero_for_one, exact_in, to_target))

sms_with_mode(sqrt_current, sqrt_target, liquidity, amount_remaining, fee_pips, zero_for_one, exact_in) ==
    sms_with_target(sqrt_current, sqrt_target, liquidity, amount_remaining, fee_pips,
                    zero_for_one, exact_in,
                    sms_amount_to_target(
                        sqrt_current, sqrt_target, liquidity, zero_for_one, exact_in))

\* swap_math::compute_swap_step; fee_pips is in parts of FEE_DENOM
swap_math_compute_swap_step(sqrt_current, sqrt_target, liquidity, amount_remaining, fee_pips) ==
    sms_with_mode(sqrt_current, sqrt_target, liquidity, amount_remaining, fee_pips,
                  sqrt_current >= sqrt_target, amount_remaining >= 0)

-----------------------------------------------------------------------------
(* f64_swap.rs: the step math of the floating-point variant *)

RQ96 == R(Q96)

get_amount0_delta(sqrt_price_lower, sqrt_price_upper, sqrt_l) ==
    RDiv(RMul(RMul(sqrt_l, RQ96), RSub(sqrt_price_upper, sqrt_price_lower)),
         RMul(sqrt_price_lower, sqrt_price_upper))

get_amount1_delta(sqrt_price_lower, sqrt_price_upper, sqrt_l) ==
    RDiv(RMul(sqrt_l, RSub(sqrt_price_upper, sqrt_price_lower)), RQ96)

\* the buy branch with the amount subtracted from the price
get_sqrt_price_from_input_subtracting(zero_for_one, amount_in, sqrt_price_current, sqrt_l) ==
    IF zero_for_one
    THEN LET l96 == RMul(sqrt_l, RQ96)
         IN  RDiv(RMul(l96, sqrt_price_current),
                  RAdd(l96, RMul(amount_in, sqrt_price_current)))
    ELSE RSub(sqrt_price_current, RDiv(RMul(amount_in, RQ96), sqrt_l))

get_sqrt_price_from_input(zero_for_one, amount_in, sqrt_price_current, sqrt_l) ==
    IF zero_for_one
    THEN LET l96 == RMul(sqrt_l, RQ96)
         IN  RDiv(RMul(l96, sqrt_price_current),
                  RAdd(l96, RMul(amount_in, sqrt_price_current)))
    ELSE RAdd(sqrt_price_current, RDiv(RMul(amount_in, RQ96), sqrt_l))

get_sqrt_price_from_output(zero_for_one, amount_out, sqrt_price_current, sqrt_l) ==
    IF zero_for_one
    THEN RSub(sqrt_price_current, RDiv(RMul(amount_out, RQ96), sqrt_l))
    ELSE LET l96 == RMul(sqrt_l, RQ96)
         IN  RDiv(RMul(l96, sqrt_price_current),
                  RSub(l96, RMul(amount_out, sqrt_price_current)))

\* the rated fee taken as fee_pips of amount_in, not grossed up by 1 - fee_pips
f64_fee_amount_of_input(exact_in, max, amount_remaining, amount_in, fee_pips) ==
    IF exact_in /\ ~max
    THEN RSub(amount_remaining, amount_in)
    ELSE RMul(amount_in, fee_pips)

\* the fee of a step that stops short taken as the whole remaining amount
f64_fee_amount_whole(exact_in, max, amount_remaining, amount_in, fee_pips) ==
    IF exact_in /\ ~max
    THEN amount_remaining
    ELSE RDiv(RMul(amount_in, fee_pips), RSub(R(1), fee_pips))

\* the fee of a step: the rest of the input when an exact-input step stops
\* short of its target, the fee rate on amount_in otherwise
f64_fee_amount(exact_in, max, amount_remaining, amount_in, fee_pips) ==
    IF exact_in /\ ~max
    THEN RSub(amount_remaining, amount_in)
    ELSE RDiv(RMul(amount_in, fee_pips), RSub(R(1), fee_pips))

\* the amount that moves the price to the target: amount_in in exact-input
\* mode, amount_out in exact-output mode
css_amount_to_target(sqrt_p_current, sqrt_p_target, l, zero_for_one, exact_in) ==
    IF exact_in
    THEN IF zero_for_one
         THEN get_amount0_delta(sqrt_p_target, sqrt_p_current, l)
         ELSE get_amount1_delta(sqrt_p_current, sqrt_p_target, l)
    ELSE IF zero_for_one
         THEN get_amount1_delta(sqrt_p_target, sqrt_p_current, l)
         ELSE get_amount0_delta(sqrt_p_current, sqrt_p_target, l)

\* max: the amount suffices to reach the target
css_max(amount_remaining, fee_pips, exact_in, to_target) ==
    IF exact_in
    THEN RGe(RMul(amount_remaining, RSub(R(1), fee_pips)), to_target)
    ELSE RGe(RNeg(amount_remaining), to_target)

\* sqrt_p_next
css_sqrt_p_next(sqrt_p_current, sqrt_p_target, l, amount_remaining, fee_pips, zero_for_one, exact_in, max) ==
    IF max THEN sqrt_p_target
    ELSE IF exact_in
    THEN get_sqrt_price_from_input(
             zero_for_one, RMul(amount_remaining, RSub(R(1), fee_pips)),
             sqrt_p_current, l)
    ELSE get_sqrt_price_from_output(
             zero_for_one, RNeg(amount_remaining), sqrt_p_current, l)

\* the cap of the output, the fee and the exhausted flag
css_finish(amount_remaining, fee_pips, exact_in, max, sqrt_p_next, amount_in, amount_out) ==
    [sqrt_p_next |-> sqrt_p_next,
     amount_in |-> amount_in,
     amount_out |-> IF ~exact_in /\ RGt(amount_out, RNeg(amount_remaining))
                    THEN RNeg(amount_remaining) ELSE amount_out,
     fee_amount |-> f64_fee_amount(exact_in, max, amount_remaining, amount_in, fee_pips),
     exhausted |-> ~max,
     max |-> max]

\* amount_in and amount_out between the current and the next price
css_amounts(sqrt_p_current, l, amount_remaining, fee_pips, zero_for_one, exact_in, to_target, max, sqrt_p_next) ==
    css_finish(amount_remaining, fee_pips, exact_in, max, sqrt_p_next,
        IF ~max \/ ~exact_in
        THEN IF zero_for_one
             THEN get_amount0_delta(sqrt_p_next, sqrt_p_current, l)
             ELSE get_amount1_delta(sqrt_p_current, sqrt_p_next, l)
        ELSE to_target,
        IF ~max \/ exact_in
        THEN IF zero_for_one
             THEN get_amount1_delta(sqrt_p_next, sqrt_p_current, l)
             ELSE get_amount0_delta(sqrt_p_current, sqrt_p_next, l)
        ELSE to_target)

css_with_max(sqrt_p_current, sqrt_p_target, l, amount_remaining, fee_pips, zero_for_one, exact_in, to_target, max) ==
    css_amounts(sqrt_p_current, l, amount_remaining, fee_pips,
                zero_for_one, exact_in, to_target, max,
                css_sqrt_p_next(sqrt_p_current, sqrt_p_target, l, amount_remaining,
                                fee_pips, zero_for_one, exact_in, max))

css_with_target(sqrt_p_current, sqrt_p_target, l, amount_remaining, fee_pips, zero_for_one, exact_in, to_target) ==
    css_with_max(sqrt_p_current, sqrt_p_target, l, amount_remaining, fee_pips,
                 zero_for_one, exact_in, to_target,
                 css_max(amount_remaining, fee_pips, exact_in, to_target))

css_with_mode(sqrt_p_current, sqrt_p_target, l, amount_remaining, fee_pips, zero_for_one, exact_in) ==
    css_with_target(sqrt_p_current, sqrt_p_target, l, amount_remaining, fee_pips,
                    zero_for_one, exact_in,
                    css_amount_to_target(
                        sqrt_p_current, sqrt_p_target, l, zero_for_one, exact_in))

compute_swap_step(sqrt_p_current, sqrt_p_target, l, amount_remaining, fee_pips) ==
    css_with_mode(sqrt_p_current, sqrt_p_target, l, amount_remaining, fee_pips,
                  RGe(sqrt_p_current, sqrt_p_target), RGe(amount_remaining, RZero))

-----------------------------------------------------------------------------
(* Bounds of the inputs *)

MaxAmount == 8
HalfLiquidity == 2
MaxIters == 12

MaxLiquidity == 2 * HalfLiquidity

Variants == {"int", "f64"}
AmountsSpecified == {-MaxAmount, -1, 0, 1, 3, MaxAmount}
Liquidities == {0, HalfLiquidity, MaxLiquidity}
Fees == {0, 1}
TickSpacings == {1, 2}
StartTicks == {-1, 0}
PriceLimits == {0, MIN_SQRT_RATIO, MIN_SQRT_RATIO + 1, 6, Q96, Q96 + 3,
                MAX_SQRT_RATIO - 1, MAX_SQRT_RATIO, MAX_SQRT_RATIO + 13}
DecimalsFactors == {<<1, 1>>, <<2, 3>>}

\* the bitmap a pool keeps for its tick map
BitmapOf(ticks, tick_spacing) == {t \div tick_spacing : t \in DOMAIN ticks}

\* tick maps (tick index -> liquidity_net) of a pool of spacing s, each with
\* its bitmap; the last one has a bit set for a tick the map does not hold
TickConfigs(s) ==
    {[ticks |-> tm, tick_bitmap |-> BitmapOf(tm, s)] :
        tm \in {<<>>,
                (s :> -HalfLiquidity),
                (-s :> HalfLiquidity) @@ (s :> -HalfLiquidity),
                (-s :> MaxLiquidity) @@ (s :> -MaxLiquidity),
                (0 :> HalfLiquidity) @@ (s :> -HalfLiquidity),
                (-s :> HalfLiquidity) @@ (0 :> HalfLiquidity) @@ (s :> -MaxLiquidity)}}
    \cup {[ticks |-> (s :> -HalfLiquidity), tick_bitmap |-> {-1, 1}]}

\* price and tick of a snapshot agree, and so do tick map and bitmap
ValidSnapshot(i) ==
    /\ SqrtRatio(i.slot0.tick) <= i.slot0.sqrt_price
    /\ i.slot0.sqrt_price < SqrtRatio(i.slot0.tick + 1)
    /\ i.tick_bitmap = BitmapOf(i.ticks, i.tick_spacing)

-----------------------------------------------------------------------------
(* State *)

VARIABLES
    inp,        \* the arguments of the call: snapshot and request
    pc,         \* "start", "loop", "done", "error", "panic"
    state,      \* SwapState
    exhausted,  \* f64_swap.rs: the exhausted flag of the loop
    step,       \* StepComputations of the last iteration, with what it read
    iters,      \* iterations executed (saturates at MaxIters)
    applied,    \* ticks whose liquidity_net was applied, in order
    result,     \* SwapResult
    err         \* UniswapV3MathError of an Err return

vars == <<inp, pc, state, exhausted, step, iters, applied, result, err>>

NoState == [amount_specified_remaining |-> RZero, amount_calculated |-> RZero,
            sqrt_price_x96 |-> RZero, tick |-> 0, liquidity |-> RZero]

NoStep == [sqrt_price_start_x96 |-> RZero, tick_next |-> 0, initialized |-> FALSE,
           sqrt_price_next_x96 |-> RZero, amount_in |-> RZero, amount_out |-> RZero,
           fee_amount |-> RZero, target_price |-> RZero,
           remaining_before |-> RZero, liquidity_before |-> RZero,
           tick_before |-> 0, crossed |-> FALSE]

\* SwapResult::default()
DefaultResult == [amount0_delta |-> RZero, amount1_delta |-> RZero,
                  sqrt_price_after |-> RZero, liquidity_after |-> RZero,
                  tick_after |-> 0]

Init ==
    /\ \E v \in Variants, zfo \in BOOLEAN, a \in AmountsSpecified,
          l \in Liquidities, f \in Fees, s \in TickSpacings,
          t \in StartTicks, off \in {0, 1}, lim \in PriceLimits,
          df \in DecimalsFactors :
         \E tc \in TickConfigs(s) :
            /\ v = "int" => df = <<1, 1>>
            /\ inp = [variant |-> v, zero_for_one |-> zfo, amount_specified |-> a,
                      sqrt_price_limit |-> lim,
                      slot0 |-> [sqrt_price |-> SqrtRatio(t) + off,
                                 liquidity |-> l, tick |-> t],
                      fee |-> f, tick_spacing |-> s,
                      ticks |-> tc.ticks, tick_bitmap |-> tc.tick_bitmap,
                      token0_decimals_factor |-> df[1],
                      token1_decimals_factor |-> df[2]]
    /\ pc = "start"
    /\ state = NoState
    /\ exhausted = FALSE
    /\ step = NoStep
    /\ iters = 0
    /\ applied = <<>>
    /\ result = DefaultResult
    /\ err = ""

-----------------------------------------------------------------------------
(* swap.rs: the integer swap *)

\* the range checks with < and > in place of <= and >=
int_limit_error_strict(i) ==
    IF i.sqrt_price_limit < MIN_SQRT_RATIO THEN "SplM"
    ELSE IF i.sqrt_price_limit > MAX_SQRT_RATIO THEN "SpuM"
    ELSE IF i.zero_for_one /\ i.sqrt_price_limit >= i.slot0.sqrt_price THEN "SplC"
    ELSE IF ~i.zero_for_one /\ i.sqrt_price_limit <= i.slot0.sqrt_price THEN "SpuC"
    ELSE ""

\* the four checks of the price limit; "" when the limit passes
int_limit_error(i) ==
    IF i.sqrt_price_limit <= MIN_SQRT_RATIO THEN "SplM"
    ELSE IF i.sqrt_price_limit >= MAX_SQRT_RATIO THEN "SpuM"
    ELSE IF i.zero_for_one /\ i.sqrt_price_limit >= i.slot0.sqrt_price THEN "SplC"
    ELSE IF ~i.zero_for_one /\ i.sqrt_price_limit <= i.slot0.sqrt_price THEN "SpuC"
    ELSE ""

\* the condition of the while loop
int_loop_condition(i, st) ==
    /\ st.amount_specified_remaining # RZero
    /\ st.sqrt_price_x96 # R(i.sqrt_price_limit)

ClampTick(t) == IF t < MIN_TICK THEN MIN_TICK ELSE IF t > MAX_TICK THEN MAX_TICK ELSE t

\* liquidity_net applied without the sign flip of a sell
int_l_net_unsigned(zero_for_one, l_net) == l_net

\* liquidity_net negated in both directions
int_l_net_negated(zero_for_one, l_net) == -1 * l_net

\* the liquidity_net of a crossed tick as the loop applies it
int_l_net(zero_for_one, l_net) == IF zero_for_one THEN -1 * l_net ELSE l_net

\* the price the step aims at: the limit when the boundary lies beyond it
int_target_price(zero_for_one, sqrt_price_next, sqrt_price_limit) ==
    IF IF zero_for_one
       THEN sqrt_price_next < sqrt_price_limit
       ELSE sqrt_price_next > sqrt_price_limit
    THEN sqrt_price_limit
    ELSE sqrt_price_next

\* StepComputations of an iteration, with the loop state it started from
StepRecord(st, initialized, tick_next, sqrt_price_next, target_price, amount_in, amount_out, fee_amount, crossed) ==
    [sqrt_price_start_x96 |-> st.sqrt_price_x96,
     tick_next |-> tick_next, initialized |-> initialized,
     sqrt_price_next_x96 |-> sqrt_price_next,
     amount_in |-> amount_in, amount_out |-> amount_out,
     fee_amount |-> fee_amount,
     target_price |-> target_price,
     remaining_before |-> st.amount_specified_remaining,
     liquidity_before |-> st.liquidity,
     tick_before |-> st.tick, crossed |-> crossed]

\* the tick of a landing taken as the boundary itself in both directions
int_tick_after_on_boundary(zero_for_one, landed, tick_next, recomputed) ==
    IF landed THEN tick_next ELSE recomputed

\* the active tick after a step: boundary - 1 (sell) or the boundary (buy)
\* when the step landed on the boundary price, else the tick recomputed from
\* the price (the tick held before when the price did not move)
int_tick_after(zero_for_one, landed, tick_next, recomputed) ==
    IF landed
    THEN IF zero_for_one THEN tick_next - 1 ELSE tick_next
    ELSE recomputed

\* the accounting of the step and the new tick, once the liquidity is known
int_after_step(i, st, initialized, tick_next, sqrt_price_next, target_price, cs, added, recomputed) ==
    IF ~added.ok \/ ~recomputed.ok
    THEN [kind |-> "error",
          err |-> IF ~added.ok THEN added.err ELSE recomputed.err,
          state |-> st,
          step |-> StepRecord(st, initialized, tick_next, R(sqrt_price_next),
                              R(target_price), R(cs.amount_in), R(cs.amount_out),
                              R(cs.fee_amount), FALSE)]
    ELSE [kind |-> "ok", err |-> "",
          state |->
             [amount_specified_remaining |->
                  R(IF i.amount_specified > 0
                    THEN st.amount_specified_remaining[1]
                            - (cs.amount_in + cs.fee_amount)
                    ELSE st.amount_specified_remaining[1] + cs.amount_out),
              amount_calculated |->
                  R(IF i.amount_specified > 0
                    THEN st.amount_calculated[1] - cs.amount_out
                    ELSE st.amount_calculated[1] + (cs.amount_in + cs.fee_amount)),
              sqrt_price_x96 |-> R(cs.sqrt_price_next),
              tick |-> int_tick_after(i.zero_for_one,
                                      cs.sqrt_price_next = sqrt_price_next,
                                      tick_next, recomputed.v),
              liquidity |-> R(added.v)],
          step |-> StepRecord(st, initialized, tick_next, R(sqrt_price_next),
                              R(target_price), R(cs.amount_in), R(cs.amount_out),
                              R(cs.fee_amount),
                              cs.sqrt_price_next = sqrt_price_next /\ initialized)]

\* after compute_swap_step: its Err, the unwrap of the crossed tick, then the
\* liquidity after the crossing and the tick recomputed from the price
int_with_step(i, st, initialized, tick_next, sqrt_price_next, target_price, cs) ==
    IF ~cs.ok
    THEN [kind |-> "error", err |-> cs.err, state |-> st,
          step |-> StepRecord(st, initialized, tick_next, R(sqrt_price_next),
                              R(target_price), RZero, RZero, RZero, FALSE)]
    ELSE IF /\ cs.sqrt_price_next = sqrt_price_next
            /\ initialized
            /\ tick_next \notin DOMAIN i.ticks
    THEN [kind |-> "panic", err |-> "", state |-> st,
          step |-> StepRecord(st, initialized, tick_next, R(sqrt_price_next),
                              R(target_price), R(cs.amount_in), R(cs.amount_out),
                              R(cs.fee_amount), FALSE)]
    ELSE int_after_step(i, st, initialized, tick_next, sqrt_price_next, target_price, cs,
             IF cs.sqrt_price_next = sqrt_price_next /\ initialized
             THEN add_delta(st.liquidity[1],
                            int_l_net(i.zero_for_one, i.ticks[tick_next]))
             ELSE [ok |-> TRUE, err |-> "", v |-> st.liquidity[1]],
             IF /\ cs.sqrt_price_next # sqrt_price_next
                /\ cs.sqrt_price_next # st.sqrt_price_x96[1]
             THEN get_tick_at_sqrt_ratio(cs.sqrt_price_next)
             ELSE [ok |-> TRUE, err |-> "", v |-> st.tick])

int_with_target(i, st, initialized, tick_next, sqrt_price_next, target_price) ==
    int_with_step(i, st, initialized, tick_next, sqrt_price_next, target_price,
        swap_math_compute_swap_step(
            st.sqrt_price_x96[1], target_price, st.liquidity[1],
            st.amount_specified_remaining[1], i.fee))

int_with_price(i, st, initialized, tick_next, sqrt_price_next) ==
    int_with_target(i, st, initialized, tick_next, sqrt_price_next,
        int_target_price(i.zero_for_one, sqrt_price_next, i.sqrt_price_limit))

int_with_tick(i, st, initialized, tick_next) ==
    int_with_price(i, st, initialized, tick_next,
                   get_sqrt_ratio_at_tick(tick_next).v)

int_with_found(i, st, found) ==
    int_with_tick(i, st, found.initialized, ClampTick(found.next))

\* one iteration of the while loop: kind is "ok", "error" (an Err return) or
\* "panic" (unwrap of a tick the map does not hold)
int_iteration(i, st) ==
    int_with_found(i, st,
        next_initialized_tick_within_one_word(
            i.tick_bitmap, st.tick, i.tick_spacing, i.zero_for_one))

\* the SwapResult built after the loop
int_result(i, st) ==
    LET exact_input == i.amount_specified > 0
        specified == RSub(R(i.amount_specified), st.amount_specified_remaining)
    IN  [amount0_delta |-> IF i.zero_for_one = exact_input
                           THEN specified ELSE st.amount_calculated,
         amount1_delta |-> IF i.zero_for_one = exact_input
                           THEN st.amount_calculated ELSE specified,
         sqrt_price_after |-> st.sqrt_price_x96,
         liquidity_after |-> st.liquidity,
         tick_after |-> st.tick]

Bump(n) == IF n < MaxIters THEN n + 1 ELSE n

\* entry of swap: the checks of the limit, then the initial SwapState
IntStart ==
    /\ pc = "start"
    /\ inp.variant = "int"
    /\ IF int_limit_error(inp) # ""
       THEN /\ pc' = "error"
            /\ err' = int_limit_error(inp)
            /\ UNCHANGED state
       ELSE /\ pc' = "loop"
            /\ state' = [amount_specified_remaining |-> R(inp.amount_specified),
                         amount_calculated |-> RZero,
                         sqrt_price_x96 |-> R(inp.slot0.sqrt_price),
                         tick |-> inp.slot0.tick,
                         liquidity |-> R(inp.slot0.liquidity)]
            /\ UNCHANGED err
    /\ UNCHANGED <<inp, exhausted, step, iters, applied, result>>

\* one iteration of the while loop
IntStep ==
    /\ pc = "loop"
    /\ inp.variant = "int"
    /\ int_loop_condition(inp, state)
    /\ LET it == int_iteration(inp, state)
       IN  /\ pc' = IF it.kind = "ok" THEN "loop" ELSE it.kind
           /\ err' = it.err
           /\ state' = it.state
           /\ step' = it.step
           /\ applied' = IF it.step.crossed
                         THEN Append(applied, it.step.tick_next) ELSE applied
    /\ iters' = Bump(iters)
    /\ UNCHANGED <<inp, exhausted, result>>

\* the loop condition fails: build the result
IntFinish ==
    /\ pc = "loop"
    /\ inp.variant = "int"
    /\ ~int_loop_condition(inp, state)
    /\ pc' = "done"
    /\ result' = int_result(inp, state)
    /\ UNCHANGED <<inp, state, exhausted, step, iters, applied, err>>

-----------------------------------------------------------------------------
(* f64_swap.rs: the floating-point swap *)

\* amount_specified in the units the loop counts in
f64_amount_specified_remaining(i) ==
    IF i.zero_for_one
    THEN IF i.amount_specified > 0
         THEN RMul(R(i.amount_specified), R(i.token0_decimals_factor))
         ELSE RMul(R(i.amount_specified), R(i.token1_decimals_factor))
    ELSE IF i.amount_specified > 0
         THEN RMul(R(i.amount_specified), R(i.token1_decimals_factor))
         ELSE RMul(R(i.amount_specified), R(i.token0_decimals_factor))

\* the break tests with a limit that stops the loop only once it is passed
f64_loop_condition_passed(i, st, exh) ==
    /\ ~(exh \/ st.amount_specified_remaining = RZero \/ RLe(st.liquidity, RZero))
    /\ IF i.zero_for_one
       THEN ~RLt(st.sqrt_price_x96, R(i.sqrt_price_limit))
       ELSE ~RGt(st.sqrt_price_x96, R(i.sqrt_price_limit))

\* the two break tests at the head of the loop, negated
f64_loop_condition(i, st, exh) ==
    /\ ~(exh \/ st.amount_specified_remaining = RZero \/ RLe(st.liquidity, RZero))
    /\ IF i.zero_for_one
       THEN ~RLe(st.sqrt_price_x96, R(i.sqrt_price_limit))
       ELSE ~RGe(st.sqrt_price_x96, R(i.sqrt_price_limit))

\* liquidity_net applied by the f64 loop without the sign flip of a sell
f64_l_net_unsigned(zero_for_one, l_net) == l_net

\* the liquidity_net of a crossed tick as the loop applies it
f64_l_net(zero_for_one, l_net) == IF zero_for_one THEN -1 * l_net ELSE l_net

\* the target taken as the boundary price whatever the limit
f64_target_price_boundary(zero_for_one, sqrt_price_next, sqrt_price_limit) ==
    sqrt_price_next

\* the price the step aims at: the limit when the boundary lies beyond it
f64_target_price(zero_for_one, sqrt_price_next, sqrt_price_limit) ==
    IF IF zero_for_one
       THEN RLt(sqrt_price_next, sqrt_price_limit)
       ELSE RGt(sqrt_price_next, sqrt_price_limit)
    THEN sqrt_price_limit
    ELSE sqrt_price_next

\* the remaining amount charged with the step's input in both modes
f64_remaining_after_as_input(exact_input, remaining, cs) ==
    IF exact_input
    THEN RSub(remaining, RAdd(cs.amount_in, cs.fee_amount))
    ELSE RAdd(remaining, RAdd(cs.amount_in, cs.fee_amount))

\* amount_specified_remaining after a step: less the input and its fee in
\* exact-input mode, plus the output in exact-output mode
f64_remaining_after(exact_input, remaining, cs) ==
    IF exact_input
    THEN RSub(remaining, RAdd(cs.amount_in, cs.fee_amount))
    ELSE RAdd(remaining, cs.amount_out)

\* after compute_swap_step: the accounting of the step, the crossing (with
\* the unwrap of the crossed tick) and the new tick
f64_with_step(i, st, initialized, tick_next, sqrt_price_next, target_price, cs) ==
    IF /\ cs.sqrt_p_next = sqrt_price_next
       /\ initialized
       /\ tick_next \notin DOMAIN i.ticks
    THEN [kind |-> "panic", state |-> st, exhausted |-> cs.exhausted,
          step |-> StepRecord(st, initialized, tick_next, sqrt_price_next,
                              target_price, cs.amount_in, cs.amount_out,
                              cs.fee_amount, FALSE)]
    ELSE [kind |-> "ok", exhausted |-> cs.exhausted,
          state |->
             [amount_specified_remaining |->
                  f64_remaining_after(i.amount_specified > 0,
                                      st.amount_specified_remaining, cs),
              amount_calculated |->
                  IF i.amount_specified > 0
                  THEN RSub(st.amount_calculated, cs.amount_out)
                  ELSE RAdd(st.amount_calculated,
                            RAdd(cs.amount_in, cs.fee_amount)),
              sqrt_price_x96 |-> cs.sqrt_p_next,
              tick |-> IF cs.sqrt_p_next = sqrt_price_next
                       THEN IF i.zero_for_one THEN tick_next - 1 ELSE tick_next
                       ELSE st.tick,
              liquidity |->
                  IF cs.sqrt_p_next = sqrt_price_next /\ initialized
                  THEN RAdd(st.liquidity,
                            R(f64_l_net(i.zero_for_one, i.ticks[tick_next])))
                  ELSE st.liquidity],
          step |-> StepRecord(st, initialized, tick_next, sqrt_price_next,
                              target_price, cs.amount_in, cs.amount_out,
                              cs.fee_amount,
                              cs.sqrt_p_next = sqrt_price_next /\ initialized)]

f64_with_target(i, st, initialized, tick_next, sqrt_price_next, target_price) ==
    f64_with_step(i, st, initialized, tick_next, sqrt_price_next, target_price,
        compute_swap_step(st.sqrt_price_x96, target_price, st.liquidity,
                          st.amount_specified_remaining, Rat(i.fee, FEE_DENOM)))

f64_with_price(i, st, initialized, tick_next, sqrt_price_next) ==
    f64_with_target(i, st, initialized, tick_next, sqrt_price_next,
        f64_target_price(i.zero_for_one, sqrt_price_next, R(i.sqrt_price_limit)))

f64_with_tick(i, st, initialized, tick_next) ==
    f64_with_price(i, st, initialized, tick_next, f64_sqrt_price_at_tick(tick_next))

f64_with_found(i, st, found) ==
    f64_with_tick(i, st, found.initialized, ClampTick(found.next))

\* the body of the loop after the break tests
f64_iteration(i, st) ==
    f64_with_found(i, st,
        next_initialized_tick_within_one_word(
            i.tick_bitmap, st.tick, i.tick_spacing, i.zero_for_one))

\* the SwapResult built after the loop
f64_result(i, st) ==
    LET exact_input == i.amount_specified > 0
        specified == RSub(R(i.amount_specified), st.amount_specified_remaining)
        amount0_delta == IF i.zero_for_one = exact_input
                         THEN specified ELSE st.amount_calculated
        amount1_delta == IF i.zero_for_one = exact_input
                         THEN st.amount_calculated ELSE specified
    IN  [amount0_delta |-> RDiv(amount0_delta, R(i.token0_decimals_factor)),
         amount1_delta |-> RDiv(amount1_delta, R(i.token1_decimals_factor)),
         sqrt_price_after |-> st.sqrt_price_x96,
         liquidity_after |-> st.liquidity,
         tick_after |-> st.tick]

\* entry of swap: an empty tick map returns the default result at once
F64Start ==
    /\ pc = "start"
    /\ inp.variant = "f64"
    /\ IF DOMAIN inp.ticks = {}
       THEN /\ pc' = "done"
            /\ result' = DefaultResult
            /\ UNCHANGED state
       ELSE /\ pc' = "loop"
            /\ state' = [amount_specified_remaining |->
                             f64_amount_specified_remaining(inp),
                         amount_calculated |-> RZero,
                         sqrt_price_x96 |-> R(inp.slot0.sqrt_price),
                         tick |-> inp.slot0.tick,
                         liquidity |-> R(inp.slot0.liquidity)]
            /\ UNCHANGED result
    /\ UNCHANGED <<inp, exhausted, step, iters, applied, err>>

\* one iteration of the loop that does not break
F64Step ==
    /\ pc = "loop"
    /\ inp.variant = "f64"
    /\ f64_loop_condition(inp, state, exhausted)
    /\ LET it == f64_iteration(inp, state)
       IN  /\ pc' = IF it.kind = "ok" THEN "loop" ELSE it.kind
           /\ state' = it.state
           /\ step' = it.step
           /\ exhausted' = it.exhausted
           /\ applied' = IF it.step.crossed
                         THEN Append(applied, it.step.tick_next) ELSE applied
    /\ iters' = Bump(iters)
    /\ UNCHANGED <<inp, result, err>>

\* a break test holds: build the result
F64Finish ==
    /\ pc = "loop"
    /\ inp.variant = "f64"
    /\ ~f64_loop_condition(inp, state, exhausted)
    /\ pc' = "done"
    /\ result' = f64_result(inp, state)
    /\ UNCHANGED <<inp, state, exhausted, step, iters, applied, err>>

-----------------------------------------------------------------------------

Next ==
    \/ IntStart
    \/ IntStep
    \/ IntFinish
    \/ F64Start
    \/ F64Step
    \/ F64Finish

Spec == Init /\ [][Next]_vars

TypeOK ==
    /\ pc \in {"start", "loop", "done", "error", "panic"}
    /\ iters \in 0..MaxIters
    /\ state.tick \in MIN_TICK - 1 .. MAX_TICK
    /\ state.sqrt_price_x96[2] > 0
    /\ state.amount_specified_remaining[2] > 0
    /\ state.amount_calculated[2] > 0
    /\ inp.variant = "int" =>
          /\ RIsInt(state.sqrt_price_x96)
          /\ RIsInt(state.amount_specified_remaining)
          /\ RIsInt(state.amount_calculated)

-----------------------------------------------------------------------------
(* Properties *)

LimitErrors == {"SplM", "SpuM", "SplC", "SpuC"}

\* a SwapResult has been returned
Returned == pc = "done"

\* the call reached the loop (no Err of the entry checks, no early return)
EnteredLoop == pc \in {"loop", "done", "error", "panic"} /\ state # NoState

\* the last iteration ran to its end
StepDone == pc \in {"loop", "done"} /\ iters > 0

\* C1: on a valid snapshot with zero active liquidity both variants return
\* zero deltas, the snapshot's price and tick, and run no iteration
C1_ZeroLiquidityIsNoOp ==
    (Returned /\ ValidSnapshot(inp) /\ inp.slot0.liquidity = 0) =>
        /\ result.amount0_delta = RZero
        /\ result.amount1_delta = RZero
        /\ result.sqrt_price_after = R(inp.slot0.sqrt_price)
        /\ result.tick_after = inp.slot0.tick
        /\ iters = 0

\* the limit is outside [MIN_SQRT_RATIO, MAX_SQRT_RATIO]
LimitOutsideRange(i) ==
    i.sqrt_price_limit < MIN_SQRT_RATIO \/ i.sqrt_price_limit > MAX_SQRT_RATIO

\* the limit is at or outside the two bounds
LimitAtOrOutsideRange(i) ==
    i.sqrt_price_limit <= MIN_SQRT_RATIO \/ i.sqrt_price_limit >= MAX_SQRT_RATIO

\* the limit is not strictly on the trade's side of the current price
LimitNotBeyondCurrent(i) ==
    IF i.zero_for_one THEN i.sqrt_price_limit >= i.slot0.sqrt_price
    ELSE i.sqrt_price_limit <= i.slot0.sqrt_price

\* C2 as stated: the integer swap returns a price-limit error, without a step,
\* exactly when the limit is outside the representable range or not strictly
\* beyond the current price
C2_LimitErrorsAsStated ==
    (inp.variant = "int" /\ pc # "start") =>
        /\ (LimitOutsideRange(inp) \/ LimitNotBeyondCurrent(inp))
              <=> (pc = "error" /\ err \in LimitErrors)
        /\ err \in LimitErrors => iters = 0

\* C2 amended: the integer swap returns PriceLimitOutOfRange (SplM, SpuM)
\* exactly when the limit is at or outside the minimum / maximum price,
\* PriceLimitNotBeyondCurrent (SplC, SpuC) exactly when it is inside and not
\* strictly beyond the current price, and neither for any other limit; no
\* step is performed on either error
C2_LimitErrors ==
    (inp.variant = "int" /\ pc # "start") =>
        /\ LimitAtOrOutsideRange(inp) <=> (pc = "error" /\ err \in {"SplM", "SpuM"})
        /\ (~LimitAtOrOutsideRange(inp) /\ LimitNotBeyondCurrent(inp))
              <=> (pc = "error" /\ err \in {"SplC", "SpuC"})
        /\ err \in LimitErrors => (iters = 0 /\ state = NoState /\ step = NoStep)

\* the limit is the minimum price itself, below the current price of a sell
C2_Witness ==
    /\ inp.variant = "int"
    /\ inp.zero_for_one
    /\ inp.sqrt_price_limit = MIN_SQRT_RATIO
    /\ pc = "error"
    /\ err = "SplM"

\* a terminal condition of section 4.6 holds of the loop state
Terminal(i, st, exh) ==
    \/ IF i.variant = "int" THEN st.amount_specified_remaining = RZero ELSE exh
    \/ RLe(st.liquidity, RZero)
    \/ IF i.zero_for_one
       THEN RLe(st.sqrt_price_x96, R(i.sqrt_price_limit))
       ELSE RGe(st.sqrt_price_x96, R(i.sqrt_price_limit))

\* C3: no iteration starts from a loop state in which a terminal condition
\* holds (amount used up, liquidity zero, limit reached or passed)
C3_NoStepOnceTerminal ==
    [][(pc = "loop" /\ pc' # "done") => ~Terminal(inp, state, exhausted)]_vars

ExactInputStep == StepDone /\ inp.amount_specified > 0

\* the step ended on its target price
ReachedTarget == state.sqrt_price_x96 = step.target_price

\* C5 as stated: in exact-input mode amount_in + fee_amount never exceeds the
\* remaining amount given to the step, and equals it only when the step
\* reached its target
C5_ConservationAsStated ==
    ExactInputStep =>
        /\ RLe(RAdd(step.amount_in, step.fee_amount), step.remaining_before)
        /\ RAdd(step.amount_in, step.fee_amount) = step.remaining_before
              => ReachedTarget

\* C5 amended: in exact-input mode amount_in + fee_amount never exceeds the
\* remaining amount given to the step, and equals it whenever the step did
\* not reach its target (a step that reaches the target may use less)
C5_Conservation ==
    ExactInputStep =>
        /\ RLe(RAdd(step.amount_in, step.fee_amount), step.remaining_before)
        /\ ~ReachedTarget
              => RAdd(step.amount_in, step.fee_amount) = step.remaining_before

\* an exact-input step of the f64 variant stopped short of its target and
\* took the rest of the input as fee
C5_Witness ==
    /\ ExactInputStep
    /\ inp.variant = "f64"
    /\ ~ReachedTarget
    /\ RGt(step.amount_in, RZero)
    /\ RGt(step.fee_amount, RZero)

\* the ticks the snapshot holds as initialized
InitializedTicks(i) ==
    {t \in DOMAIN i.ticks : (t \div i.tick_spacing) \in i.tick_bitmap}

\* the last iteration ended on the price of its candidate boundary
LandedOnBoundary == state.sqrt_price_x96 = step.sqrt_price_next_x96

\* C6 as stated: after at least one iteration, a final price equal to the price of an initialized tick means
\* that tick's liquidity_net (negated on a sell) was added to the liquidity
\* held before it; and a net delta is applied only by a step that lands on
\* the price of an initialized boundary
C6_CrossingAsStated ==
    /\ (Returned /\ iters > 0) =>
          \A t \in InitializedTicks(inp) :
              result.sqrt_price_after = R(SqrtRatio(t)) =>
                  result.liquidity_after =
                      RAdd(step.liquidity_before,
                           R(IF inp.zero_for_one THEN -inp.ticks[t] ELSE inp.ticks[t]))
    /\ (StepDone /\ state.liquidity # step.liquidity_before) =>
          (LandedOnBoundary /\ step.initialized)

\* C6 amended: when the last step of the loop ends exactly on the price of
\* its candidate boundary and that boundary is initialized, liquidity_after
\* is the liquidity held before that step plus the boundary's liquidity_net
\* (negated on a sell); and a net delta is applied only by a step that lands
\* on the price of an initialized boundary
C6_Crossing ==
    /\ (Returned /\ iters > 0 /\ LandedOnBoundary /\ step.initialized) =>
          /\ step.tick_next \in DOMAIN inp.ticks
          /\ result.liquidity_after =
                RAdd(step.liquidity_before,
                     R(IF inp.zero_for_one THEN -inp.ticks[step.tick_next]
                       ELSE inp.ticks[step.tick_next]))
    /\ (StepDone /\ ~(LandedOnBoundary /\ step.initialized)) =>
          (state.liquidity = step.liquidity_before /\ ~step.crossed)

\* a sell ended on an initialized boundary and its net delta was applied
C6_Witness ==
    /\ Returned
    /\ inp.zero_for_one
    /\ LandedOnBoundary
    /\ step.initialized
    /\ step.crossed
    /\ result.liquidity_after # step.liquidity_before

\* the call is over: a result, an Err or a panic
Ended == pc \in {"done", "error", "panic"}

\* the tick of a price, held in the tick range
TickOfPrice(p) ==
    IF p < MIN_SQRT_RATIO THEN MIN_TICK
    ELSE IF p >= MAX_SQRT_RATIO THEN MAX_TICK
    ELSE get_tick_at_sqrt_ratio(p).v

\* the initialized ticks from the starting tick to the tick of the limit
TicksToLimit(i) ==
    LET a == i.slot0.tick
        b == TickOfPrice(i.sqrt_price_limit)
    IN  {t \in InitializedTicks(i) :
            (a <= t /\ t <= b) \/ (b <= t /\ t <= a)}

\* C7, termination: every call ends.  An iteration is a function of the
\* arguments and the loop state, so a loop that ends never runs an iteration
\* that leaves the loop state as it found it
C7_Terminates ==
    [][(pc = "loop" /\ pc' = "loop") =>
          (state' # state \/ exhausted' # exhausted)]_vars

\* C7, the bound: the loop runs at most as many iterations as there are
\* initialized ticks from the starting tick to the tick of the limit
C7_IterationBound == iters <= Cardinality(TicksToLimit(inp))

RSign(x) == IF x[1] > 0 THEN 1 ELSE IF x[1] < 0 THEN -1 ELSE 0

\* C8: in no SwapResult do the two deltas have the same strict sign: the pool
\* never receives both assets and never pays out both
C8_NeverSameSign ==
    Returned => RSign(result.amount0_delta) * RSign(result.amount1_delta) <= 0

\* the scenario of C9: an exact-input buy of the integer variant from tick 0
\* at liquidity L, with the only initialized tick T above holding -L/2, and a
\* limit far above T
C9_T == inp.tick_spacing

C9_Scenario ==
    /\ inp.variant = "int"
    /\ ~inp.zero_for_one
    /\ inp.amount_specified > 0
    /\ inp.slot0.tick = 0
    /\ inp.slot0.sqrt_price = SqrtRatio(0)
    /\ inp.slot0.liquidity > 0
    /\ DOMAIN inp.ticks = {C9_T}
    /\ inp.tick_bitmap = BitmapOf(inp.ticks, inp.tick_spacing)
    /\ 2 * (-inp.ticks[C9_T]) = inp.slot0.liquidity
    /\ inp.sqrt_price_limit = MAX_SQRT_RATIO - 1
    /\ inp.sqrt_price_limit > SqrtRatio(C9_T)

\* the input that moves the price from tick 0 to T, with its fee
C9_Needed ==
    LET amount_in == int_get_amount1_delta(
                         SqrtRatio(0), SqrtRatio(C9_T), inp.slot0.liquidity, TRUE)
    IN  amount_in + DivUp(amount_in * inp.fee, FEE_DENOM - inp.fee)

\* C9: with exactly the input and fee that reach T the integer swap ends with
\* nothing remaining, on the price of T, at liquidity L/2 and tick T; with any
\* larger amount it crosses T and ends at liquidity L/2
C9_ExactlyToBoundary ==
    (Returned /\ C9_Scenario) =>
        /\ inp.amount_specified = C9_Needed =>
              /\ state.amount_specified_remaining = RZero
              /\ result.sqrt_price_after = R(SqrtRatio(C9_T))
              /\ 2 * result.liquidity_after[1] = inp.slot0.liquidity
              /\ result.liquidity_after[2] = 1
              /\ result.tick_after = C9_T
              /\ iters = 1
        /\ inp.amount_specified > C9_Needed =>
              /\ applied = <<C9_T>>
              /\ 2 * result.liquidity_after[1] = inp.slot0.liquidity
              /\ result.liquidity_after[2] = 1
              /\ RGe(result.sqrt_price_after, R(SqrtRatio(C9_T)))

\* the swap of exactly the needed amount has returned
C9_Witness ==
    /\ Returned
    /\ C9_Scenario
    /\ inp.amount_specified = C9_Needed
    /\ applied = <<C9_T>>

\* the swap of a larger amount has returned, past T
C9_WitnessLarger ==
    /\ Returned
    /\ C9_Scenario
    /\ inp.amount_specified > C9_Needed
    /\ RGt(result.sqrt_price_after, R(SqrtRatio(C9_T)))

\* the result was built by the code after the loop of the f64 variant
F64Returned == Returned /\ inp.variant = "f64" /\ DOMAIN inp.ticks # {}

\* the delta of the asset the amount is specified in, and its decimal factor
SpecifiedDelta ==
    IF inp.zero_for_one = (inp.amount_specified > 0)
    THEN result.amount0_delta ELSE result.amount1_delta

SpecifiedFactor ==
    IF inp.zero_for_one = (inp.amount_specified > 0)
    THEN R(inp.token0_decimals_factor) ELSE R(inp.token1_decimals_factor)

\* C10: the delta of the specified asset is (amount specified - remaining),
\* both in native units, divided by that asset's decimal factor
C10_SpecifiedDelta ==
    F64Returned =>
        SpecifiedDelta =
            RDiv(RSub(RMul(R(inp.amount_specified), SpecifiedFactor),
                      state.amount_specified_remaining),
                 SpecifiedFactor)

\* the errors of add_delta: LiquidityUnderflow and LiquidityOverflow
LiquidityErrors == {"LS", "LA"}

\* the liquidity the last iteration would hold after applying the net delta
\* of its candidate boundary
LiquidityCrossed ==
    RAdd(step.liquidity_before,
         R(IF inp.zero_for_one THEN -inp.ticks[step.tick_next]
           ELSE inp.ticks[step.tick_next]))

\* C11: an iteration that applies a net delta leaves the active liquidity in
\* 0 .. U128_MAX (a delta that would not is answered with LiquidityUnderflow
\* or LiquidityOverflow and no SwapResult), so liquidity_after of every
\* returned result is non-negative, in both variants
C11_LiquidityChecked ==
    /\ (StepDone /\ step.crossed) =>
          /\ RGe(state.liquidity, RZero)
          /\ RLe(state.liquidity, R(U128_MAX))
    /\ (pc = "error" /\ err \in LiquidityErrors) =>
          /\ step.initialized
          /\ step.tick_next \in DOMAIN inp.ticks
          /\ \/ RLt(LiquidityCrossed, RZero)
             \/ RGt(LiquidityCrossed, R(U128_MAX))
    /\ Returned => RGe(result.liquidity_after, RZero)

\* the fee rate of the call as the f64 variant passes it to compute_swap_step
FeeRate == Rat(inp.fee, FEE_DENOM)

\* the last iteration was a step of the f64 variant
F64StepDone == StepDone /\ inp.variant = "f64"

\* C12: the fee of a step of compute_swap_step: in exact-input mode when the
\* target price is not reached it is amount_remaining - amount_in, so that
\* amount_in + fee_amount is the whole input budget of the step; in every
\* other case it is amount_in * feeRate / (1 - feeRate)
C12_FeeRule ==
    F64StepDone =>
        IF inp.amount_specified > 0 /\ ~ReachedTarget
        THEN /\ step.fee_amount = RSub(step.remaining_before, step.amount_in)
             /\ RAdd(step.amount_in, step.fee_amount) = step.remaining_before
        ELSE step.fee_amount =
                RDiv(RMul(step.amount_in, FeeRate), RSub(R(1), FeeRate))

\* an exact-input step of a swap with a fee stopped short of its target after
\* an earlier step had reached its own, and took the rest of the budget as fee
C12_Witness ==
    /\ F64StepDone
    /\ inp.amount_specified > 0
    /\ inp.fee > 0
    /\ iters >= 2
    /\ ~ReachedTarget
    /\ RGt(step.amount_in, RZero)
    /\ step.fee_amount = RSub(step.remaining_before, step.amount_in)

\* a step of a swap with a fee reached its target and took the rated fee
C12_WitnessRated ==
    /\ F64StepDone
    /\ inp.fee > 0
    /\ ReachedTarget
    /\ RGt(step.fee_amount, RZero)


\* the swap is an exact-output swap
ExactOutput == inp.amount_specified < 0

\* the remaining amount the loop starts from
InitialRemaining ==
    IF inp.variant = "int" THEN R(inp.amount_specified)
    ELSE f64_amount_specified_remaining(inp)

\* the output paid by the iterations so far: the sum of their amount_out
OutputPaid == RSub(state.amount_specified_remaining, InitialRemaining)

\* C13: in exact-output mode the amount_out of a step never exceeds the output
\* still owed when the step began; so the remaining amount stays <= 0 through
\* the loop, and the output paid never exceeds the amount specified, in the
\* loop's units and in the delta of the returned result
C13_OutputCapped ==
    /\ (StepDone /\ ExactOutput) =>
          /\ RLe(step.amount_out, RNeg(step.remaining_before))
          /\ state.amount_specified_remaining =
                RAdd(step.remaining_before, step.amount_out)
    /\ (EnteredLoop /\ ExactOutput) =>
          /\ RLe(state.amount_specified_remaining, RZero)
          /\ RGe(OutputPaid, RZero)
          /\ RLe(OutputPaid, RNeg(InitialRemaining))
    /\ (Returned /\ ExactOutput) =>
          RLe(RNeg(SpecifiedDelta), R(-inp.amount_specified))

\* an exact-output swap paid all it owed in its second step, after a first
\* step that paid a part
C13_Witness ==
    /\ Returned
    /\ ExactOutput
    /\ iters >= 2
    /\ RLt(step.remaining_before, RZero)
    /\ RGt(step.remaining_before, InitialRemaining)
    /\ step.amount_out = RNeg(step.remaining_before)
    /\ state.amount_specified_remaining = RZero


\* the f64 loop has run an iteration whose step ended off the price of its
\* candidate boundary, so that the active tick was left as it was
F64EndedOffBoundary ==
    /\ inp.variant = "f64"
    /\ pc = "loop"
    /\ iters > 0
    /\ ~LandedOnBoundary

\* C14: in the f64 loop an iteration whose step ends with a price other than
\* the price of its candidate boundary is the last one: the only step the
\* loop takes from there is the exit that builds the result, so no further
\* boundary lookup reads the active tick that was not recomputed
C14_ShortStepIsLast ==
    [][F64EndedOffBoundary => (pc' = "done" /\ step' = step /\ iters' = iters)]_vars

\* an f64 sell returned after a step that moved the price below the price
\* of the active tick without landing on its boundary: the tick is stale
C14_Witness ==
    /\ Returned
    /\ inp.variant = "f64"
    /\ inp.zero_for_one
    /\ iters >= 2
    /\ ~LandedOnBoundary
    /\ state.sqrt_price_x96 # step.sqrt_price_start_x96
    /\ state.tick = step.tick_before
    /\ RLt(state.sqrt_price_x96, R(SqrtRatio(state.tick)))


\* the distance between two prices
RDist(a, b) == IF RLe(a, b) THEN RSub(b, a) ELSE RSub(a, b)

\* the limit is strictly on the trade's side of the snapshot price
LimitBeyondCurrent ==
    IF inp.zero_for_one
    THEN inp.sqrt_price_limit < inp.slot0.sqrt_price
    ELSE inp.sqrt_price_limit > inp.slot0.sqrt_price

\* price a is not beyond price b in the direction of the trade
NotBeyond(a, b) == IF inp.zero_for_one THEN RGe(a, b) ELSE RLe(a, b)

IntStepDone == StepDone /\ inp.variant = "int"

\* the last step left the price where it found it
PriceUnmoved == state.sqrt_price_x96 = step.sqrt_price_start_x96

\* the tick the loop sets when a step lands on its candidate boundary
TickAtBoundary == IF inp.zero_for_one THEN step.tick_next - 1 ELSE step.tick_next

\* a sequence of ticks runs strictly in the direction of the trade
InTradeOrder(ticks) ==
    \A j \in 1 .. Len(ticks) - 1 :
        IF inp.zero_for_one THEN ticks[j + 1] < ticks[j] ELSE ticks[j + 1] > ticks[j]

\* C16 as stated: in the integer loop a step that lands on its candidate
\* boundary sets the tick to boundary - 1 on a sell and to the boundary on a
\* buy, initialized or not; a step that moved the price without landing
\* recomputes the tick from the price; a step that did not move the price
\* leaves the tick unchanged; a lookup after a sell crossing starts strictly
\* below the boundary crossed, and no boundary's delta is applied twice
C16_TickUpdateAsStated ==
    /\ IntStepDone =>
          /\ LandedOnBoundary => state.tick = TickAtBoundary
          /\ (~LandedOnBoundary /\ ~PriceUnmoved) =>
                state.tick = get_tick_at_sqrt_ratio(state.sqrt_price_x96[1]).v
          /\ PriceUnmoved => state.tick = step.tick_before
          /\ (step.crossed /\ inp.zero_for_one) => state.tick < step.tick_next
    /\ inp.variant = "int" => InTradeOrder(applied)

\* C16 amended: as stated, but the tick is left unchanged only by a step
\* that neither landed on its candidate boundary nor moved the price: a step
\* that lands on the boundary without moving the price (a sell that starts on
\* the price of the boundary) sets the tick like any other landing
C16_TickUpdate ==
    /\ IntStepDone =>
          /\ LandedOnBoundary => state.tick = TickAtBoundary
          /\ (~LandedOnBoundary /\ ~PriceUnmoved) =>
                state.tick = get_tick_at_sqrt_ratio(state.sqrt_price_x96[1]).v
          /\ (~LandedOnBoundary /\ PriceUnmoved) => state.tick = step.tick_before
          /\ (step.crossed /\ inp.zero_for_one) => state.tick < step.tick_next
    /\ inp.variant = "int" => InTradeOrder(applied)

\* an integer sell crossed the boundary it started on without moving the
\* price, then moved the price below it without landing, from a lookup that
\* started below the crossed boundary, and the tick was recomputed
C16_Witness ==
    /\ IntStepDone
    /\ inp.zero_for_one
    /\ iters >= 2
    /\ Len(applied) = 1
    /\ step.tick_before = applied[1] - 1
    /\ ~LandedOnBoundary
    /\ ~PriceUnmoved
    /\ state.tick # step.tick_before


\* C17: swap never aborts: no call ends in a panic, every failure is an Err
\* returned to the caller
C17_NeverAborts == pc # "panic"


-----------------------------------------------------------------------------
(* The two variants side by side: each swap run to its end on one input *)

\* the record of a run: how it ended, its SwapResult, the candidate boundary
\* ticks of its iterations and the ticks whose net delta it applied
RunEnd(kind, res, visited, crossed) ==
    [kind |-> kind, result |-> res, visited |-> visited, applied |-> crossed]

RECURSIVE int_loop(_, _, _, _, _)
RECURSIVE int_loop_next(_, _, _, _, _)
\* swap.rs: the while loop from loop state st, at most n iterations
int_loop(i, st, visited, crossed, n) ==
    IF n = 0 THEN RunEnd("cut", int_result(i, st), visited, crossed)
    ELSE IF ~int_loop_condition(i, st)
    THEN RunEnd("done", int_result(i, st), visited, crossed)
    ELSE int_loop_next(i, int_iteration(i, st), visited, crossed, n)

\* the loop after one iteration it
int_loop_next(i, it, visited, crossed, n) ==
    IF it.kind # "ok"
    THEN RunEnd(it.kind, DefaultResult, Append(visited, it.step.tick_next), crossed)
    ELSE int_loop(i, it.state, Append(visited, it.step.tick_next),
                  IF it.step.crossed THEN Append(crossed, it.step.tick_next)
                  ELSE crossed,
                  n - 1)

\* swap.rs: swap as a whole
int_swap(i) ==
    IF int_limit_error(i) # ""
    THEN RunEnd("error", DefaultResult, <<>>, <<>>)
    ELSE int_loop(i, [amount_specified_remaining |-> R(i.amount_specified),
                      amount_calculated |-> RZero,
                      sqrt_price_x96 |-> R(i.slot0.sqrt_price),
                      tick |-> i.slot0.tick,
                      liquidity |-> R(i.slot0.liquidity)],
                  <<>>, <<>>, MaxIters)

RECURSIVE f64_loop(_, _, _, _, _, _)
RECURSIVE f64_loop_next(_, _, _, _, _)
\* f64_swap.rs: the loop from loop state st, at most n iterations
f64_loop(i, st, exh, visited, crossed, n) ==
    IF n = 0 THEN RunEnd("cut", f64_result(i, st), visited, crossed)
    ELSE IF ~f64_loop_condition(i, st, exh)
    THEN RunEnd("done", f64_result(i, st), visited, crossed)
    ELSE f64_loop_next(i, f64_iteration(i, st), visited, crossed, n)

\* the loop after one iteration it
f64_loop_next(i, it, visited, crossed, n) ==
    IF it.kind # "ok"
    THEN RunEnd(it.kind, DefaultResult, Append(visited, it.step.tick_next), crossed)
    ELSE f64_loop(i, it.state, it.exhausted, Append(visited, it.step.tick_next),
                  IF it.step.crossed THEN Append(crossed, it.step.tick_next)
                  ELSE crossed,
                  n - 1)

\* f64_swap.rs: swap as a whole
f64_swap(i) ==
    IF DOMAIN i.ticks = {}
    THEN RunEnd("done", DefaultResult, <<>>, <<>>)
    ELSE f64_loop(i, [amount_specified_remaining |-> f64_amount_specified_remaining(i),
                      amount_calculated |-> RZero,
                      sqrt_price_x96 |-> R(i.slot0.sqrt_price),
                      tick |-> i.slot0.tick,
                      liquidity |-> R(i.slot0.liquidity)],
                  FALSE, <<>>, <<>>, MaxIters)


\* the active liquidity of the snapshot is the sum of the net deltas of the
\* ticks at or below the active tick, and the map is not empty
RECURSIVE SumNet(_, _)
SumNet(ticks, S) ==
    IF S = {} THEN 0
    ELSE LET t == CHOOSE x \in S : TRUE IN ticks[t] + SumNet(ticks, S \ {t})

ConsistentLiquidity(i) ==
    /\ DOMAIN i.ticks # {}
    /\ i.slot0.liquidity = SumNet(i.ticks, {t \in DOMAIN i.ticks : t <= i.slot0.tick})

\* the integer swap has returned on a valid snapshot of positive liquidity
\* that agrees with its tick map, and the f64 swap, run on the same snapshot
\* and request, returns the same price
SideBySide ==
    /\ Returned
    /\ inp.variant = "int"
    /\ ValidSnapshot(inp)
    /\ ConsistentLiquidity(inp)
    /\ inp.slot0.liquidity > 0
    /\ f64_swap(inp).kind = "done"
    /\ f64_swap(inp).result.sqrt_price_after = result.sqrt_price_after

C18_WitnessCrossing ==
    /\ SideBySide
    /\ iters >= 2
    /\ Len(applied) >= 1
    /\ f64_swap(inp).applied = applied
    /\ Len(f64_swap(inp).visited) >= 2
    /\ RGt(result.liquidity_after, RZero)
    /\ f64_swap(inp).result.tick_after = result.tick_after

=============================================================================
